---- MODULE Spec2Model ----
(***************************************************************************)
(* Flash Region Manager of the USB/UEFI firmware interface                 *)
(* (src/src/firmware/flash_manager.c): the module-level state, the public  *)
(* operations flash_manager_init / flash_read / flash_write /              *)
(* flash_erase_sector / flash_get_device_info / flash_manager_status /     *)
(* flash_manager_cleanup, and the Firmware Volume Block (FVB) protocol     *)
(* the manager dispatches to; and the device table of the USB driver       *)
(* (src/src/usb/usb_driver.c): usb_driver_init / usb_device_detect /       *)
(* usb_device_communicate / usb_driver_status / usb_driver_cleanup.        *)
(*                                                                         *)
(* Byte quantities are exact (64 * 1024 is 65536 bytes).  The integer      *)
(* widths are scaled: a UINT32 has UINT32_BITS bits and a UINT64 / UINTN   *)
(* (X64 build, the AM5 target) has two bits more, so that every value the  *)
(* model computes stays inside TLC's integers while truncation and         *)
(* wrap-around still happen where the C code truncates and wraps.          *)
(***************************************************************************)
EXTENDS Integers, Sequences, FiniteSets, TLC

VARIABLES
    mFlashManagerInitialized,   \* STATIC BOOLEAN
    mFvbProtocol,               \* STATIC EFI_FIRMWARE_VOLUME_BLOCK_PROTOCOL *: "NULL" or "FVB"
    mFvbHandle,                 \* STATIC EFI_HANDLE: "NULL" or "HANDLE0"
    mFlashInfo,                 \* STATIC FLASH_DEVICE_INFO
    mFlashRegions,              \* STATIC FLASH_REGION [MAX_FLASH_REGIONS]
    mRegionCount,               \* STATIC UINTN
    fvb,                        \* the FVB device of the platform: geometry, open state
    flash,                      \* bytes stored by the FVB device at the observed cells
    ret,                        \* the last call of the public API: arguments, status, backend calls
    mUsbDriverInitialized,      \* static BOOLEAN
    mUsb2HcProtocol,            \* static EFI_USB2_HC_PROTOCOL *: "NULL" or "HC"
    mUsb2HcHandle,              \* static EFI_HANDLE: "NULL" or "HANDLE0"
    mUsbDevices,                \* static USB_DEVICE_INFO [MAX_USB_DEVICES]
    mDeviceCount,               \* static UINTN
    usbOverrun,                 \* indexes past the table written by the last detection
    usbRet                      \* the last call of the USB driver's API

usbVars == <<mUsbDriverInitialized, mUsb2HcProtocol, mUsb2HcHandle, mUsbDevices,
             mDeviceCount, usbOverrun, usbRet>>

vars == <<mFlashManagerInitialized, mFvbProtocol, mFvbHandle, mFlashInfo,
          mFlashRegions, mRegionCount, fvb, flash, ret, usbVars>>

managerVars == <<mFlashManagerInitialized, mFvbProtocol, mFvbHandle, mFlashInfo,
                 mFlashRegions, mRegionCount>>

-----------------------------------------------------------------------------
(* Integer widths *)

UINT32_BITS == 27

UINT32_MOD == 2^UINT32_BITS

UINT64_MOD == 4 * UINT32_MOD

MAX_UINT32 == UINT32_MOD - 1

ToUINT32(x) == x % UINT32_MOD

ToUINT64(x) == x % UINT64_MOD

\* UINTN is 64 bits wide on X64
ToUINTN(x) == ToUINT64(x)

MAX_FLASH_REGIONS == 16

-----------------------------------------------------------------------------
(* Zero-filled structures (static storage, ZeroMemory) *)

ZeroFlashInfo ==
    [DeviceName |-> "", DeviceId |-> "0x00000000", VendorId |-> 0, TotalSize |-> 0,
     SectorSize |-> 0, WriteProtected |-> FALSE, BlockCount |-> 0]

ZeroRegion ==
    [Type |-> "FLASH_REGION_BOOT_BLOCK", StartAddress |-> 0, Size |-> 0,
     WriteProtected |-> FALSE, EraseRequired |-> FALSE, Name |-> ""]

ZeroRegions == [i \in 0..(MAX_FLASH_REGIONS - 1) |-> ZeroRegion]

-----------------------------------------------------------------------------
(* The FVB device.  Its geometry is fixed for a platform; what a query or  *)
(* a transfer answers is chosen per call.                                  *)

\* <<BlockSize, NumberOfBlocks>> of the platforms considered
Geometries ==
    { <<4096, 4096>>,                       \* 16 MiB, the manager's default
      <<4096, 256>>,                        \* 1 MiB
      <<4096, 72>>,                         \* 288 KiB
      <<4096, 64>>,                         \* 256 KiB
      <<65536, 2>>,                         \* 128 KiB
      <<65536, (2 * UINT32_MOD) \div 65536>>, \* does not fit a UINT32
      <<2, UINT32_MOD + 131072>>,           \* more blocks than a UINT32 counts
      <<131072, 8>>                         \* 1 MiB in blocks of 128 KiB
    }

FvbTotal == fvb.BlockSize * fvb.NumberOfBlocks

\* the byte addresses of the device whose contents the model observes: the last
\* byte of the Boot Block, the first byte of Main Firmware (a block boundary
\* lies between them for every block size) and the first byte of the Descriptor
Cells(total) ==
    { a \in {64 * 1024 - 1, 64 * 1024, total - 64 * 1024} : 0 <= a /\ a < total }

\* answers of GetAttributes: a status and the attribute bits
AttrResponses ==
    { [Status |-> "EFI_SUCCESS", Attributes |-> {"EFI_FVB2_WRITE_STATUS"}],
      [Status |-> "EFI_SUCCESS",
       Attributes |-> {"EFI_FVB2_READ_STATUS", "EFI_FVB2_WRITE_STATUS"}],
      [Status |-> "EFI_DEVICE_ERROR", Attributes |-> {}] }

\* answers of GetBlockSize(Lba 0)
GeoResponses ==
    { [Status |-> "EFI_SUCCESS", BlockSize |-> fvb.BlockSize,
       NumberOfBlocks |-> fvb.NumberOfBlocks],
      [Status |-> "EFI_DEVICE_ERROR", BlockSize |-> 0, NumberOfBlocks |-> 0] }

EFI_ERROR(Status) == Status # "EFI_SUCCESS"

-----------------------------------------------------------------------------
(* DetectFlashDevice: defaults, then the FVB's attributes and geometry *)

\* the status of GetBlockSize not tested: the geometry is taken as answered
DetectFlashDevice_GeometryUnchecked(proto, attr, geo) ==
    LET def == [DeviceName |-> "Generic SPI Flash",
                DeviceId |-> "0x12345678",
                VendorId |-> 43981,
                TotalSize |-> 16 * 1024 * 1024,
                SectorSize |-> 4096,
                WriteProtected |-> FALSE,
                BlockCount |-> (16 * 1024 * 1024) \div 4096]
        a == IF proto # "NULL" /\ ~EFI_ERROR(attr.Status)
             THEN [def EXCEPT !.WriteProtected =
                                 ("EFI_FVB2_READ_STATUS" \in attr.Attributes)]
             ELSE def
    IN  IF proto # "NULL"
        THEN [a EXCEPT !.SectorSize = ToUINT32(geo.BlockSize),
                       !.BlockCount = ToUINT32(geo.NumberOfBlocks),
                       !.TotalSize  = ToUINT64(geo.BlockSize * geo.NumberOfBlocks)]
        ELSE a

DetectFlashDevice(proto, attr, geo) ==
    LET def == [DeviceName |-> "Generic SPI Flash",
                DeviceId |-> "0x12345678",
                VendorId |-> 43981,
                TotalSize |-> 16 * 1024 * 1024,
                SectorSize |-> 4096,
                WriteProtected |-> FALSE,
                BlockCount |-> (16 * 1024 * 1024) \div 4096]
        a == IF proto # "NULL" /\ ~EFI_ERROR(attr.Status)
             THEN [def EXCEPT !.WriteProtected =
                                 ("EFI_FVB2_READ_STATUS" \in attr.Attributes)]
             ELSE def
    IN  IF proto # "NULL" /\ ~EFI_ERROR(geo.Status)
        THEN [a EXCEPT !.SectorSize = ToUINT32(geo.BlockSize),
                       !.BlockCount = ToUINT32(geo.NumberOfBlocks),
                       !.TotalSize  = ToUINT64(geo.BlockSize * geo.NumberOfBlocks)]
        ELSE a

-----------------------------------------------------------------------------
(* InitializeFlashRegions: the fixed four-region layout *)

\* the size that makes Main Firmware end at TotalSize - 256 KiB
MainFirmwareSize_EndAt256K(info) == ToUINT32(ToUINT64(info.TotalSize - 320 * 1024))

\* what remains after Boot Block, NVRAM and Descriptor, stored in a UINT32
MainFirmwareSize(info) == ToUINT32(ToUINT64(info.TotalSize - 256 * 1024))

InitializeFlashRegions(info) ==
    [i \in 0..(MAX_FLASH_REGIONS - 1) |->
        CASE i = 0 -> [Type |-> "FLASH_REGION_BOOT_BLOCK",
                       StartAddress |-> 0,
                       Size |-> 64 * 1024,
                       WriteProtected |-> TRUE, EraseRequired |-> TRUE,
                       Name |-> "Boot Block"]
          [] i = 1 -> [Type |-> "FLASH_REGION_MAIN_FIRMWARE",
                       StartAddress |-> 64 * 1024,
                       Size |-> MainFirmwareSize(info),
                       WriteProtected |-> FALSE, EraseRequired |-> TRUE,
                       Name |-> "Main Firmware"]
          [] i = 2 -> [Type |-> "FLASH_REGION_NVRAM",
                       StartAddress |-> ToUINT32(ToUINT64(info.TotalSize - 192 * 1024)),
                       Size |-> 128 * 1024,
                       WriteProtected |-> FALSE, EraseRequired |-> TRUE,
                       Name |-> "NVRAM"]
          [] i = 3 -> [Type |-> "FLASH_REGION_DESCRIPTOR",
                       StartAddress |-> ToUINT32(ToUINT64(info.TotalSize - 64 * 1024)),
                       Size |-> 64 * 1024,
                       WriteProtected |-> TRUE, EraseRequired |-> FALSE,
                       Name |-> "Flash Descriptor"]
          [] OTHER -> ZeroRegion]

InitializedRegionCount == 4

-----------------------------------------------------------------------------
(* The record of a call of the public API *)

NoCall ==
    [op |-> "none", Address |-> 0, Buffer |-> "NULL", Size |-> 0,
     Status |-> "EFI_SUCCESS", by |-> "none", calls |-> <<>>, Data |-> {}]

\* op: the function called; Address, Buffer, Size: its arguments; Status: the
\* value returned; by: "validation" when a check of the manager returned it,
\* "backend" when it is the status of a failed FVB call, "ok" on success;
\* calls: the FVB calls issued during the call, in order; Data: the bytes
\* of the observed cells carried by the buffer, as <<address, byte>> pairs
Call(op, Address, Buffer, Size, Status, by, calls, Data) ==
    [op |-> op, Address |-> Address, Buffer |-> Buffer, Size |-> Size,
     Status |-> Status, by |-> by, calls |-> calls, Data |-> Data]

\* an FVB call: the function, its arguments and the status it returned
FvbCall(fn, Lba, Offset, NumBytes, Status) ==
    [fn |-> fn, Lba |-> Lba, Offset |-> Offset, NumBytes |-> NumBytes, Status |-> Status]

-----------------------------------------------------------------------------
(* The USB driver's statics as the loader leaves them *)

MAX_USB_DEVICES == 32

\* Handle: 0 for NULL, else the handle's position in the handle buffer plus
\* one; UsbIo: "NULL" or the protocol interface of that handle; Pass: whether
\* the entry was never stored ("none"), stored by the last detection
\* ("this") or by an earlier one ("earlier")
ZeroUsbDevice == [Handle |-> 0, UsbIo |-> "NULL", IsConnected |-> FALSE, Pass |-> "none"]

UsbNoCall == [op |-> "none", DeviceId |-> 0, Status |-> "EFI_SUCCESS", Pass |-> "none"]

UsbConstructed ==
    /\ mUsbDriverInitialized = FALSE
    /\ mUsb2HcProtocol = "NULL"
    /\ mUsb2HcHandle = "NULL"
    /\ mUsbDevices = [i \in 0..(MAX_USB_DEVICES - 1) |-> ZeroUsbDevice]
    /\ mDeviceCount = 0
    /\ usbOverrun = {}
    /\ usbRet = UsbNoCall

-----------------------------------------------------------------------------
Init ==
    /\ mFlashManagerInitialized = FALSE
    /\ mFvbProtocol = "NULL"
    /\ mFvbHandle = "NULL"
    /\ mFlashInfo = ZeroFlashInfo
    /\ mFlashRegions = ZeroRegions
    /\ mRegionCount = 0
    /\ \E g \in Geometries :
          /\ fvb = [BlockSize |-> g[1], NumberOfBlocks |-> g[2], Opened |-> FALSE]
          /\ flash = [c \in Cells(g[1] * g[2]) |-> 0]
    /\ ret = NoCall
    /\ UsbConstructed

-----------------------------------------------------------------------------
(* flash_manager_init *)

\* the guard of line 45 left out: a second init runs the initialization again
InitAlreadyStarted_Never == FALSE

InitAlreadyStarted == mFlashManagerInitialized

\* LocateHandleBuffer finds no handle, OpenProtocol fails on the first handle,
\* or the protocol of the first handle is opened
ProtocolOutcomes == {"not_found", "open_failed", "opened"}

\* a missing FVB protocol reported as an error after detection has run
flash_manager_init_FailsWithoutProtocol ==
    \E found \in ProtocolOutcomes, attr \in AttrResponses, geo \in GeoResponses :
      IF InitAlreadyStarted
      THEN /\ ret' = Call("flash_manager_init", 0, "NULL", 0, "EFI_ALREADY_STARTED",
                          "validation", <<>>, {})
           /\ UNCHANGED <<managerVars, fvb, flash>>
      ELSE LET proto == IF found = "opened" THEN "FVB" ELSE "NULL"
               info  == DetectFlashDevice(proto, attr, geo)
           IN  /\ mFvbProtocol' = proto
               /\ mFvbHandle' = IF found = "opened" THEN "HANDLE0" ELSE mFvbHandle
               /\ fvb' = [fvb EXCEPT !.Opened = @ \/ (found = "opened")]
               /\ mFlashInfo' = info
               /\ IF found = "opened"
                  THEN /\ mFlashRegions' = InitializeFlashRegions(info)
                       /\ mRegionCount' = InitializedRegionCount
                       /\ mFlashManagerInitialized' = TRUE
                       /\ ret' = Call("flash_manager_init", 0, "NULL", 0, "EFI_SUCCESS",
                                      "ok",
                                      << FvbCall("GetAttributes", 0, 0, 0, attr.Status),
                                         FvbCall("GetBlockSize", 0, 0, 0, geo.Status) >>,
                                      {})
                  ELSE /\ UNCHANGED <<mFlashRegions, mRegionCount,
                                      mFlashManagerInitialized>>
                       /\ ret' = Call("flash_manager_init", 0, "NULL", 0, "EFI_NOT_FOUND",
                                      "backend", <<>>, {})
               /\ UNCHANGED flash

flash_manager_init ==
    \E found \in ProtocolOutcomes, attr \in AttrResponses, geo \in GeoResponses :
      IF InitAlreadyStarted
      THEN /\ ret' = Call("flash_manager_init", 0, "NULL", 0, "EFI_ALREADY_STARTED",
                          "validation", <<>>, {})
           /\ UNCHANGED <<managerVars, fvb, flash>>
      ELSE LET proto == IF found = "opened" THEN "FVB" ELSE "NULL"
               info  == DetectFlashDevice(proto, attr, geo)
           IN  /\ mFvbProtocol' = proto
               /\ mFvbHandle' = IF found = "opened" THEN "HANDLE0" ELSE mFvbHandle
               /\ fvb' = [fvb EXCEPT !.Opened = @ \/ (found = "opened")]
               /\ mFlashInfo' = info
               /\ mFlashRegions' = InitializeFlashRegions(info)
               /\ mRegionCount' = InitializedRegionCount
               /\ mFlashManagerInitialized' = TRUE
               /\ ret' = Call("flash_manager_init", 0, "NULL", 0, "EFI_SUCCESS", "ok",
                              IF proto # "NULL"
                              THEN << FvbCall("GetAttributes", 0, 0, 0, attr.Status),
                                      FvbCall("GetBlockSize", 0, 0, 0, geo.Status) >>
                              ELSE <<>>,
                              {})
               /\ UNCHANGED flash

-----------------------------------------------------------------------------
(* flash_manager_cleanup *)

CleanupNotReady == ~mFlashManagerInitialized

\* the CloseProtocol block left out: the protocol and the handle stay held
CleanupClosesProtocol_Never == FALSE

CleanupClosesProtocol == mFvbProtocol # "NULL" /\ mFvbHandle # "NULL"

\* the protocol interface is given up but the handle is kept
flash_manager_cleanup_KeepsHandle ==
    IF CleanupNotReady
    THEN /\ ret' = Call("flash_manager_cleanup", 0, "NULL", 0, "EFI_NOT_READY",
                        "validation", <<>>, {})
         /\ UNCHANGED <<managerVars, fvb, flash>>
    ELSE /\ IF CleanupClosesProtocol
            THEN /\ fvb' = [fvb EXCEPT !.Opened = FALSE]
                 /\ mFvbProtocol' = "NULL"
                 /\ UNCHANGED mFvbHandle
            ELSE UNCHANGED <<fvb, mFvbProtocol, mFvbHandle>>
         /\ mFlashInfo' = ZeroFlashInfo
         /\ mFlashRegions' = ZeroRegions
         /\ mRegionCount' = 0
         /\ mFlashManagerInitialized' = FALSE
         /\ ret' = Call("flash_manager_cleanup", 0, "NULL", 0, "EFI_SUCCESS",
                        "ok", <<>>, {})
         /\ UNCHANGED flash

flash_manager_cleanup ==
    IF CleanupNotReady
    THEN /\ ret' = Call("flash_manager_cleanup", 0, "NULL", 0, "EFI_NOT_READY",
                        "validation", <<>>, {})
         /\ UNCHANGED <<managerVars, fvb, flash>>
    ELSE /\ IF CleanupClosesProtocol
            THEN /\ fvb' = [fvb EXCEPT !.Opened = FALSE]
                 /\ mFvbProtocol' = "NULL"
                 /\ mFvbHandle' = "NULL"
            ELSE UNCHANGED <<fvb, mFvbProtocol, mFvbHandle>>
         /\ mFlashInfo' = ZeroFlashInfo
         /\ mFlashRegions' = ZeroRegions
         /\ mRegionCount' = 0
         /\ mFlashManagerInitialized' = FALSE
         /\ ret' = Call("flash_manager_cleanup", 0, "NULL", 0, "EFI_SUCCESS",
                        "ok", <<>>, {})
         /\ UNCHANGED flash

-----------------------------------------------------------------------------
(* The FVB protocol's Read / Write / EraseBlocks.  A transfer addresses    *)
(* one block: it is refused for a block the device does not have, it ends  *)
(* at the block's end with EFI_BAD_BUFFER_SIZE when the request runs past  *)
(* it, and the device may fail any request (resp).                         *)

FvbResponses == {"EFI_SUCCESS", "EFI_DEVICE_ERROR"}

\* Status, first byte address and number of bytes moved by Read and Write
FvbTransfer(Lba, Offset, NumBytes, resp) ==
    IF Lba >= fvb.NumberOfBlocks \/ Offset >= fvb.BlockSize
    THEN [Status |-> "EFI_INVALID_PARAMETER", Phys |-> 0, Done |-> 0]
    ELSE IF EFI_ERROR(resp)
    THEN [Status |-> resp, Phys |-> Lba * fvb.BlockSize + Offset, Done |-> 0]
    ELSE IF Offset + NumBytes > fvb.BlockSize
    THEN [Status |-> "EFI_BAD_BUFFER_SIZE", Phys |-> Lba * fvb.BlockSize + Offset,
          Done |-> fvb.BlockSize - Offset]
    ELSE [Status |-> "EFI_SUCCESS", Phys |-> Lba * fvb.BlockSize + Offset,
          Done |-> NumBytes]

\* Status and byte range erased by EraseBlocks(Lba, 1, EFI_LBA_LIST_TERMINATOR)
FvbEraseBlocks(Lba, resp) ==
    IF Lba >= fvb.NumberOfBlocks
    THEN [Status |-> "EFI_INVALID_PARAMETER", Phys |-> 0, Done |-> 0]
    ELSE IF EFI_ERROR(resp)
    THEN [Status |-> resp, Phys |-> Lba * fvb.BlockSize, Done |-> 0]
    ELSE [Status |-> "EFI_SUCCESS", Phys |-> Lba * fvb.BlockSize, Done |-> fvb.BlockSize]

\* the observed cells inside [Phys, Phys + Done)
CellsIn(Phys, Done) == { c \in DOMAIN flash : Phys <= c /\ c < Phys + Done }

\* the device's contents after Done bytes of value b were stored at Phys
Stored(Phys, Done, b) ==
    [c \in DOMAIN flash |-> IF c \in CellsIn(Phys, Done) THEN b ELSE flash[c]]

-----------------------------------------------------------------------------
(* flash_read *)

ReadParamInvalid(Buffer, Size) ==
    Buffer = "NULL" \/ Size = 0 \/ ~mFlashManagerInitialized

\* the sum taken in 32 bits, as with a UINT32 Size
ReadBeyondBoundary_Wrap32(Address, Size) ==
    ToUINT32(Address + Size) > mFlashInfo.TotalSize

\* >= for >: a read that ends exactly at the end of the device is refused
ReadBeyondBoundary_OffByOne(Address, Size) ==
    ToUINTN(Address + Size) >= mFlashInfo.TotalSize

ReadBeyondBoundary(Address, Size) ==
    ToUINTN(Address + Size) > mFlashInfo.TotalSize

flash_read(Address, Buffer, Size, resp, mem) ==
    IF ReadParamInvalid(Buffer, Size)
    THEN /\ ret' = Call("flash_read", Address, Buffer, Size, "EFI_INVALID_PARAMETER",
                        "validation", <<>>, {})
         /\ UNCHANGED <<managerVars, fvb, flash>>
    ELSE IF ReadBeyondBoundary(Address, Size)
    THEN /\ ret' = Call("flash_read", Address, Buffer, Size, "EFI_INVALID_PARAMETER",
                        "validation", <<>>, {})
         /\ UNCHANGED <<managerVars, fvb, flash>>
    ELSE IF mFvbProtocol # "NULL"
    THEN LET Lba    == Address \div mFlashInfo.SectorSize
             Offset == Address % mFlashInfo.SectorSize
             r      == FvbTransfer(Lba, Offset, Size, resp)
         IN  /\ ret' = Call("flash_read", Address, Buffer, Size, r.Status,
                            IF EFI_ERROR(r.Status) THEN "backend" ELSE "ok",
                            << FvbCall("Read", Lba, Offset, Size, r.Status) >>,
                            { <<c, flash[c]>> : c \in CellsIn(r.Phys, r.Done) })
             /\ UNCHANGED <<managerVars, fvb, flash>>
    ELSE \* CopyMemory from the physical address Address: system memory, not the device
         /\ ret' = Call("flash_read", Address, Buffer, Size, "EFI_SUCCESS", "ok", <<>>,
                        { <<c, mem>> : c \in CellsIn(Address, Size) })
         /\ UNCHANGED <<managerVars, fvb, flash>>

-----------------------------------------------------------------------------
(* Region policy *)

\* the inclusive 32-bit overlap test of the loop body
WriteOverlaps(Address, EndAddress, i) ==
    LET RegionEnd == ToUINT32(mFlashRegions[i].StartAddress + mFlashRegions[i].Size - 1)
    IN  Address <= RegionEnd /\ EndAddress >= mFlashRegions[i].StartAddress

CheckRegionWriteProtection(Address, Size) ==
    LET EndAddress == ToUINT32(Address + Size - 1)
    IN  IF \E i \in 0..(mRegionCount - 1) :
               WriteOverlaps(Address, EndAddress, i) /\ mFlashRegions[i].WriteProtected
        THEN "EFI_WRITE_PROTECTED"
        ELSE "EFI_SUCCESS"

EraseContains(Address, i) ==
    LET RegionEnd == ToUINT32(mFlashRegions[i].StartAddress + mFlashRegions[i].Size - 1)
    IN  Address >= mFlashRegions[i].StartAddress /\ Address <= RegionEnd

\* the first region in table order that contains Address decides
CheckRegionEraseSupport(Address) ==
    LET hits == { i \in 0..(mRegionCount - 1) : EraseContains(Address, i) }
    IN  IF hits = {}
        THEN "EFI_NOT_FOUND"
        ELSE LET first == CHOOSE i \in hits : \A j \in hits : i <= j
             IN  IF ~mFlashRegions[first].EraseRequired
                 THEN "EFI_UNSUPPORTED"
                 ELSE "EFI_SUCCESS"

-----------------------------------------------------------------------------
(* flash_write *)

WriteParamInvalid(Buffer, Size) ==
    Buffer = "NULL" \/ Size = 0 \/ ~mFlashManagerInitialized

WriteBeyondBoundary(Address, Size) ==
    ToUINTN(Address + Size) > mFlashInfo.TotalSize

WriteGlobalProtected == mFlashInfo.WriteProtected

\* the status of the checks made before the transfer, "PASS" when none fails
WriteValidation(Address, Buffer, Size) ==
    IF WriteParamInvalid(Buffer, Size) THEN "EFI_INVALID_PARAMETER"
    ELSE IF WriteBeyondBoundary(Address, Size) THEN "EFI_INVALID_PARAMETER"
    ELSE IF WriteGlobalProtected THEN "EFI_WRITE_PROTECTED"
    ELSE IF EFI_ERROR(CheckRegionWriteProtection(Address, Size))
         THEN CheckRegionWriteProtection(Address, Size)
    ELSE "PASS"

flash_write(Address, Buffer, Size, Pattern, resp) ==
    LET v == WriteValidation(Address, Buffer, Size)
    IN  IF v # "PASS"
        THEN /\ ret' = Call("flash_write", Address, Buffer, Size, v, "validation", <<>>, {})
             /\ UNCHANGED <<managerVars, fvb, flash>>
        ELSE IF mFvbProtocol # "NULL"
        THEN LET Lba    == Address \div mFlashInfo.SectorSize
                 Offset == Address % mFlashInfo.SectorSize
                 r      == FvbTransfer(Lba, Offset, Size, resp)
             IN  /\ flash' = Stored(r.Phys, r.Done, Pattern)
                 /\ ret' = Call("flash_write", Address, Buffer, Size, r.Status,
                                IF EFI_ERROR(r.Status) THEN "backend" ELSE "ok",
                                << FvbCall("Write", Lba, Offset, Size, r.Status) >>,
                                { <<c, Pattern>> : c \in CellsIn(Address, Size) })
                 /\ UNCHANGED <<managerVars, fvb>>
        ELSE \* simulated write: nothing is stored
             /\ ret' = Call("flash_write", Address, Buffer, Size, "EFI_SUCCESS", "ok", <<>>,
                            { <<c, Pattern>> : c \in CellsIn(Address, Size) })
             /\ UNCHANGED <<managerVars, fvb, flash>>

-----------------------------------------------------------------------------
(* flash_erase_sector *)

EraseNotReady == ~mFlashManagerInitialized

EraseBeyondBoundary(Address) == Address >= mFlashInfo.TotalSize

\* the test of the device-global flag left out of the erase path
EraseGlobalProtected_Ignored == FALSE

EraseGlobalProtected == mFlashInfo.WriteProtected

\* region policy consulted before the device-global flag
EraseValidation_RegionFirst(Address) ==
    IF EraseNotReady THEN "EFI_NOT_READY"
    ELSE IF EraseBeyondBoundary(Address) THEN "EFI_INVALID_PARAMETER"
    ELSE IF EFI_ERROR(CheckRegionEraseSupport(Address))
         THEN CheckRegionEraseSupport(Address)
    ELSE IF EraseGlobalProtected THEN "EFI_WRITE_PROTECTED"
    ELSE "PASS"

EraseValidation(Address) ==
    IF EraseNotReady THEN "EFI_NOT_READY"
    ELSE IF EraseBeyondBoundary(Address) THEN "EFI_INVALID_PARAMETER"
    ELSE IF EraseGlobalProtected THEN "EFI_WRITE_PROTECTED"
    ELSE IF EFI_ERROR(CheckRegionEraseSupport(Address))
         THEN CheckRegionEraseSupport(Address)
    ELSE "PASS"

\* the region check made after the block was erased instead of before
flash_erase_sector_EraseFirst(Address, resp) ==
    IF EraseNotReady \/ EraseBeyondBoundary(Address) \/ EraseGlobalProtected
       \/ mFvbProtocol = "NULL"
    THEN /\ ret' = Call("flash_erase_sector", Address, "NULL", 0,
                        IF EraseValidation(Address) = "PASS" THEN "EFI_SUCCESS"
                        ELSE EraseValidation(Address),
                        IF EraseValidation(Address) = "PASS" THEN "ok" ELSE "validation",
                        <<>>, {})
         /\ UNCHANGED <<managerVars, fvb, flash>>
    ELSE LET Lba == Address \div mFlashInfo.SectorSize
             r   == FvbEraseBlocks(Lba, resp)
             v   == CheckRegionEraseSupport(Address)
         IN  /\ flash' = Stored(r.Phys, r.Done, 255)
             /\ ret' = Call("flash_erase_sector", Address, "NULL", 0,
                            IF EFI_ERROR(v) THEN v ELSE r.Status,
                            IF EFI_ERROR(v) THEN "validation"
                            ELSE IF EFI_ERROR(r.Status) THEN "backend" ELSE "ok",
                            << FvbCall("EraseBlocks", Lba, 0, 1, r.Status) >>, {})
             /\ UNCHANGED <<managerVars, fvb>>

flash_erase_sector(Address, resp) ==
    LET v == EraseValidation(Address)
    IN  IF v # "PASS"
        THEN /\ ret' = Call("flash_erase_sector", Address, "NULL", 0, v, "validation", <<>>, {})
             /\ UNCHANGED <<managerVars, fvb, flash>>
        ELSE IF mFvbProtocol # "NULL"
        THEN LET Lba == Address \div mFlashInfo.SectorSize
                 r   == FvbEraseBlocks(Lba, resp)
             IN  /\ flash' = Stored(r.Phys, r.Done, 255)
                 /\ ret' = Call("flash_erase_sector", Address, "NULL", 0, r.Status,
                                IF EFI_ERROR(r.Status) THEN "backend" ELSE "ok",
                                << FvbCall("EraseBlocks", Lba, 0, 1, r.Status) >>, {})
                 /\ UNCHANGED <<managerVars, fvb>>
        ELSE \* simulated erase: nothing is erased
             /\ ret' = Call("flash_erase_sector", Address, "NULL", 0, "EFI_SUCCESS", "ok",
                            <<>>, {})
             /\ UNCHANGED <<managerVars, fvb, flash>>

-----------------------------------------------------------------------------
(* flash_get_device_info, flash_manager_status *)

DeviceInfoParamInvalid(FlashInfo) ==
    FlashInfo = "NULL" \/ ~mFlashManagerInitialized

\* Data carries the copy of mFlashInfo handed to the caller
flash_get_device_info(FlashInfo) ==
    /\ ret' = IF DeviceInfoParamInvalid(FlashInfo)
              THEN Call("flash_get_device_info", 0, FlashInfo, 0, "EFI_INVALID_PARAMETER",
                        "validation", <<>>, {})
              ELSE Call("flash_get_device_info", 0, FlashInfo, 0, "EFI_SUCCESS", "ok",
                        <<>>, {mFlashInfo})
    /\ UNCHANGED <<managerVars, fvb, flash>>

StatusNotReady == ~mFlashManagerInitialized

\* the report refreshes the descriptor from the FVB before printing it
flash_manager_status_Redetects ==
    /\ ret' = IF StatusNotReady
              THEN Call("flash_manager_status", 0, "NULL", 0, "EFI_NOT_READY",
                        "validation", <<>>, {})
              ELSE Call("flash_manager_status", 0, "NULL", 0, "EFI_SUCCESS", "ok", <<>>, {})
    /\ \E attr \in AttrResponses, geo \in GeoResponses :
          mFlashInfo' = IF StatusNotReady THEN mFlashInfo
                        ELSE DetectFlashDevice(mFvbProtocol, attr, geo)
    /\ UNCHANGED <<mFlashManagerInitialized, mFvbProtocol, mFvbHandle, mFlashRegions,
                   mRegionCount, fvb, flash>>

flash_manager_status ==
    /\ ret' = IF StatusNotReady
              THEN Call("flash_manager_status", 0, "NULL", 0, "EFI_NOT_READY",
                        "validation", <<>>, {})
              ELSE Call("flash_manager_status", 0, "NULL", 0, "EFI_SUCCESS", "ok", <<>>, {})
    /\ UNCHANGED <<managerVars, fvb, flash>>

-----------------------------------------------------------------------------
(* The callers' arguments *)

\* the total size a caller aims at: the descriptor's, or the default before init
AimedTotal ==
    IF mFlashManagerInitialized THEN mFlashInfo.TotalSize ELSE 16 * 1024 * 1024

Addresses ==
    { a \in { 0, 64 * 1024 - 1, 64 * 1024,
              AimedTotal - 192 * 1024,
              AimedTotal - 64 * 1024 - 256, AimedTotal - 64 * 1024,
              AimedTotal - 1, AimedTotal,
              UINT32_MOD - 16, MAX_UINT32 } :
        0 <= a /\ a <= MAX_UINT32 }

\* Size is the length of the caller's buffer
Sizes == {0, 1, 2, 4096}

\* <<Address, Buffer, Size>> of a read or a write
TransferArgs ==
    { <<a, "BUF", n>> : a \in Addresses, n \in Sizes }
    \cup { <<0, "NULL", 4096>>, <<MAX_UINT32, "NULL", 0>> }

Buffers == {"NULL", "BUF"}

Patterns == {170}

\* what the FVB device may answer to a transfer; it is asked only when the
\* protocol is held
TransferResponses ==
    IF mFvbProtocol # "NULL" THEN FvbResponses ELSE {"EFI_SUCCESS"}

\* the byte found in system memory by the direct copy made without a protocol
MemoryBytes ==
    IF mFvbProtocol = "NULL" THEN {0, 170} ELSE {0}

-----------------------------------------------------------------------------
\* the calls of the flash manager; none of them touches the USB driver
Next ==
    \/ flash_manager_init /\ UNCHANGED usbVars
    \/ flash_manager_cleanup /\ UNCHANGED usbVars
    \/ \E args \in TransferArgs, resp \in TransferResponses, mem \in MemoryBytes :
          flash_read(args[1], args[2], args[3], resp, mem) /\ UNCHANGED usbVars
    \/ \E args \in TransferArgs, Pattern \in Patterns, resp \in TransferResponses :
          flash_write(args[1], args[2], args[3], Pattern, resp) /\ UNCHANGED usbVars
    \/ \E Address \in Addresses, resp \in TransferResponses :
          flash_erase_sector(Address, resp) /\ UNCHANGED usbVars
    \/ \E FlashInfo \in Buffers : flash_get_device_info(FlashInfo) /\ UNCHANGED usbVars
    \/ flash_manager_status /\ UNCHANGED usbVars

Spec == Init /\ [][Next]_vars

-----------------------------------------------------------------------------
(* The USB driver *)

UsbCall(op, DeviceId, Status, Pass) ==
    [op |-> op, DeviceId |-> DeviceId, Status |-> Status, Pass |-> Pass]

\* LocateHandleBuffer fails, finds no host controller, OpenProtocol fails on
\* the first handle, or the first controller is opened
HcOutcomes == {"locate_failed", "none_found", "open_failed", "opened"}

usb_driver_init ==
    \E found \in HcOutcomes :
      IF mUsbDriverInitialized
      THEN /\ usbRet' = UsbCall("usb_driver_init", 0, "EFI_ALREADY_STARTED", "none")
           /\ UNCHANGED <<mUsbDriverInitialized, mUsb2HcProtocol, mUsb2HcHandle,
                          mUsbDevices, mDeviceCount, usbOverrun>>
      ELSE IF found # "opened"
      THEN /\ usbRet' = UsbCall("usb_driver_init", 0,
                                IF found = "open_failed" THEN "EFI_UNSUPPORTED"
                                ELSE "EFI_NOT_FOUND", "none")
           /\ UNCHANGED <<mUsbDriverInitialized, mUsb2HcProtocol, mUsb2HcHandle,
                          mUsbDevices, mDeviceCount, usbOverrun>>
      ELSE /\ mUsb2HcProtocol' = "HC"
           /\ mUsb2HcHandle' = "HANDLE0"
           /\ mUsbDriverInitialized' = TRUE
           /\ usbRet' = UsbCall("usb_driver_init", 0, "EFI_SUCCESS", "none")
           /\ UNCHANGED <<mUsbDevices, mDeviceCount, usbOverrun>>

\* the entry usb_process_device stores for the handle at position Index
ProcessedDevice(Index) ==
    [Handle |-> Index + 1, UsbIo |-> "IO", IsConnected |-> TRUE, Pass |-> "this"]

\* the loop of usb_device_detect from position Index on: the handles at the
\* positions in fails make usb_process_device return an error before it stores
\* anything; every other handle is stored at its own position Index, inside
\* the table or past its end, and counted
RECURSIVE DetectLoop(_, _, _, _, _, _)
DetectLoop(Index, HandleCount, fails, table, count, over) ==
    IF Index < HandleCount /\ count < MAX_USB_DEVICES
    THEN IF Index \in fails
         THEN DetectLoop(Index + 1, HandleCount, fails, table, count, over)
         ELSE DetectLoop(Index + 1, HandleCount, fails,
                         IF Index < MAX_USB_DEVICES
                         THEN [table EXCEPT ![Index] = ProcessedDevice(Index)]
                         ELSE table,
                         count + 1,
                         IF Index < MAX_USB_DEVICES THEN over ELSE over \cup {Index})
    ELSE [table |-> table, count |-> count, over |-> over]

\* the table with the entries of the last detection marked as earlier ones
Aged(table) ==
    [i \in DOMAIN table |->
        IF table[i].Pass = "this" THEN [table[i] EXCEPT !.Pass = "earlier"] ELSE table[i]]

\* a store past the end of mUsbDevices lands in the statics that follow it:
\* mDeviceCount keeps the loop's value or holds what was stored over it
usb_device_detect(located, HandleCount, fails) ==
    IF ~mUsbDriverInitialized
    THEN /\ usbRet' = UsbCall("usb_device_detect", 0, "EFI_NOT_READY", "none")
         /\ UNCHANGED <<mUsbDriverInitialized, mUsb2HcProtocol, mUsb2HcHandle,
                        mUsbDevices, mDeviceCount, usbOverrun>>
    ELSE IF ~located
    THEN /\ mDeviceCount' = 0
         /\ mUsbDevices' = Aged(mUsbDevices)
         /\ usbOverrun' = {}
         /\ usbRet' = UsbCall("usb_device_detect", 0, "EFI_NOT_FOUND", "none")
         /\ UNCHANGED <<mUsbDriverInitialized, mUsb2HcProtocol, mUsb2HcHandle>>
    ELSE LET r == DetectLoop(0, HandleCount, fails, Aged(mUsbDevices), 0, {})
         IN  /\ mUsbDevices' = r.table
             /\ usbOverrun' = r.over
             /\ mDeviceCount' \in IF r.over = {} THEN {r.count}
                                  ELSE {r.count, MAX_USB_DEVICES + 1}
             /\ usbRet' = UsbCall("usb_device_detect", 0, "EFI_SUCCESS", "none")
             /\ UNCHANGED <<mUsbDriverInitialized, mUsb2HcProtocol, mUsb2HcHandle>>

\* what a read past the end of mUsbDevices may find
UsbStrayEntries ==
    {ZeroUsbDevice, [Handle |-> 0, UsbIo |-> "IO", IsConnected |-> TRUE, Pass |-> "none"]}

usb_device_communicate(DeviceId, resp) ==
    /\ IF DeviceId >= mDeviceCount \/ ~mUsbDriverInitialized
       THEN usbRet' = UsbCall("usb_device_communicate", DeviceId,
                              "EFI_INVALID_PARAMETER", "none")
       ELSE \E e \in IF DeviceId < MAX_USB_DEVICES THEN {mUsbDevices[DeviceId]}
                      ELSE UsbStrayEntries :
              IF ~e.IsConnected \/ e.UsbIo = "NULL"
              THEN usbRet' = UsbCall("usb_device_communicate", DeviceId,
                                     "EFI_NOT_READY", e.Pass)
              ELSE usbRet' = UsbCall("usb_device_communicate", DeviceId, resp, e.Pass)
    /\ UNCHANGED <<mUsbDriverInitialized, mUsb2HcProtocol, mUsb2HcHandle,
                   mUsbDevices, mDeviceCount, usbOverrun>>

usb_driver_status ==
    /\ usbRet' = UsbCall("usb_driver_status", 0, "EFI_SUCCESS", "none")
    /\ UNCHANGED <<mUsbDriverInitialized, mUsb2HcProtocol, mUsb2HcHandle,
                   mUsbDevices, mDeviceCount, usbOverrun>>

usb_driver_cleanup ==
    IF ~mUsbDriverInitialized
    THEN /\ usbRet' = UsbCall("usb_driver_cleanup", 0, "EFI_NOT_READY", "none")
         /\ UNCHANGED <<mUsbDriverInitialized, mUsb2HcProtocol, mUsb2HcHandle,
                        mUsbDevices, mDeviceCount, usbOverrun>>
    ELSE /\ mUsb2HcHandle' = IF mUsb2HcProtocol # "NULL" /\ mUsb2HcHandle # "NULL"
                             THEN "NULL" ELSE mUsb2HcHandle
         /\ mUsbDriverInitialized' = FALSE
         /\ mDeviceCount' = 0
         /\ mUsb2HcProtocol' = "NULL"
         /\ usbRet' = UsbCall("usb_driver_cleanup", 0, "EFI_SUCCESS", "none")
         /\ UNCHANGED <<mUsbDevices, usbOverrun>>

-----------------------------------------------------------------------------
(* The USB driver's callers and bus *)

\* the number of USB I/O handles LocateHandleBuffer returns
UsbHandleCounts ==
    {0, 1, 2, MAX_USB_DEVICES, MAX_USB_DEVICES + 1, MAX_USB_DEVICES + 2}

\* the positions of the handles usb_process_device fails on
UsbFailures(HandleCount) ==
    { f \in { {}, {0}, {1}, {0, 1}, {HandleCount - 1} } :
        \A i \in f : 0 <= i /\ i < HandleCount }

UsbDeviceIds == {0, 1, MAX_USB_DEVICES - 1, MAX_USB_DEVICES}

UsbTransferResponses == {"EFI_SUCCESS", "EFI_DEVICE_ERROR"}

flashVars == <<mFlashManagerInitialized, mFvbProtocol, mFvbHandle, mFlashInfo,
               mFlashRegions, mRegionCount, fvb, flash, ret>>

\* the calls of the USB driver; none of them touches the flash manager
UsbNext ==
    \/ usb_driver_init /\ UNCHANGED flashVars
    \/ \E located \in BOOLEAN, HandleCount \in UsbHandleCounts :
          \E fails \in UsbFailures(HandleCount) :
             usb_device_detect(located, HandleCount, fails) /\ UNCHANGED flashVars
    \/ \E DeviceId \in UsbDeviceIds, resp \in UsbTransferResponses :
          usb_device_communicate(DeviceId, resp) /\ UNCHANGED flashVars
    \/ usb_driver_status /\ UNCHANGED flashVars
    \/ usb_driver_cleanup /\ UNCHANGED flashVars

\* the USB driver on the platform with the default flash geometry
UsbInit == Init /\ fvb.BlockSize = 4096 /\ fvb.NumberOfBlocks = 4096

UsbSpec == UsbInit /\ [][UsbNext]_vars

-----------------------------------------------------------------------------
(* Vocabulary of the properties: regions as stored in the table, taken as  *)
(* the half-open byte ranges [StartAddress, StartAddress + Size)           *)

RegionIndexes == 0..(mRegionCount - 1)

RegionOfType(t) == { i \in RegionIndexes : mFlashRegions[i].Type = t }

RegionIntersects(i, Address, Size) ==
    /\ Address < mFlashRegions[i].StartAddress + mFlashRegions[i].Size
    /\ Address + Size > mFlashRegions[i].StartAddress

RegionInside(i, Address, Size) ==
    /\ mFlashRegions[i].StartAddress <= Address
    /\ Address + Size <= mFlashRegions[i].StartAddress + mFlashRegions[i].Size

RegionHas(i, Address) == RegionInside(i, Address, 1)

TransferOps == {"flash_read", "flash_write"}

\* a transfer of the last call that passes the parameter and boundary checks
ValidTransfer(r) ==
    /\ r.Buffer # "NULL"
    /\ r.Size > 0
    /\ r.Address + r.Size <= mFlashInfo.TotalSize

\* every FVB call of the last call returned EFI_SUCCESS
BackendSucceeded(r) == \A k \in 1..Len(r.calls) : r.calls[k].Status = "EFI_SUCCESS"

-----------------------------------------------------------------------------
C3_UninitializedNotReady ==
    [][ ( /\ ~mFlashManagerInitialized
          /\ ret'.op \in {"flash_read", "flash_write", "flash_erase_sector",
                          "flash_get_device_info"} )
        => /\ ret'.Status = "EFI_NOT_READY"
           /\ ret'.calls = <<>> ]_vars

\* C4: in the Initialized state a read or a write with a NULL buffer, a zero
\* size, or Address + Size (the sum of the integers, not of their 32-bit
\* images) above the total size returns EFI_INVALID_PARAMETER.
C4_BoundaryRejected ==
    ( /\ mFlashManagerInitialized
      /\ ret.op \in TransferOps
      /\ ~ValidTransfer(ret) )
    => /\ ret.Status = "EFI_INVALID_PARAMETER"
       /\ ret.calls = <<>>

\* a non-empty read at the last UINT32 address, whose 32-bit sum wraps below
\* the total size, refused
C4_Witness ==
    /\ mFlashManagerInitialized
    /\ ret.op = "flash_read"
    /\ ret.Buffer # "NULL"
    /\ ret.Address = MAX_UINT32
    /\ ret.Size = 4096
    /\ ToUINT32(ret.Address + ret.Size) <= mFlashInfo.TotalSize
    /\ ret.Status = "EFI_INVALID_PARAMETER"

\* C5: in the Initialized state a write (valid buffer, inside the device) whose
\* range intersects a write-protected region returns EFI_WRITE_PROTECTED, issues
\* no FVB call and leaves every byte of the device as it was; a write whose
\* range lies inside Main Firmware or NVRAM, with the device-global flag clear,
\* is not refused by the manager.
C5_RegionWritePolicy ==
    [][ ( /\ mFlashManagerInitialized
          /\ ret'.op = "flash_write"
          /\ ValidTransfer(ret') )
        => /\ (\E i \in RegionIndexes :
                  /\ mFlashRegions[i].WriteProtected
                  /\ RegionIntersects(i, ret'.Address, ret'.Size))
              => /\ ret'.Status = "EFI_WRITE_PROTECTED"
                 /\ ret'.calls = <<>>
                 /\ flash' = flash
           /\ ( /\ ~mFlashInfo.WriteProtected
                /\ \E i \in RegionOfType("FLASH_REGION_MAIN_FIRMWARE")
                           \cup RegionOfType("FLASH_REGION_NVRAM") :
                      RegionInside(i, ret'.Address, ret'.Size) )
              => /\ ret'.by # "validation"
                 /\ BackendSucceeded(ret') => ret'.Status = "EFI_SUCCESS" ]_vars

\* C6: with the device-global WriteProtected flag set, every flash_write and
\* every flash_erase_sector returns an error and issues no FVB call.
C6_GlobalFlagBlocks ==
    ( /\ mFlashManagerInitialized
      /\ mFlashInfo.WriteProtected
      /\ ret.op \in {"flash_write", "flash_erase_sector"} )
    => /\ EFI_ERROR(ret.Status)
       /\ ret.calls = <<>>

\* an erase inside Main Firmware, which region policy allows, refused for the
\* global flag
C6_Witness ==
    /\ mFlashManagerInitialized
    /\ mFlashInfo.WriteProtected
    /\ ret.op = "flash_erase_sector"
    /\ ret.Address = 64 * 1024
    /\ ret.Status = "EFI_WRITE_PROTECTED"

\* C7: no FVB erase is issued for an address that lies in a region whose
\* WriteProtected attribute is TRUE.
C7_NoEraseInProtectedRegion ==
    ( /\ mFlashManagerInitialized
      /\ ret.op = "flash_erase_sector"
      /\ \E i \in RegionIndexes :
             mFlashRegions[i].WriteProtected /\ RegionHas(i, ret.Address) )
    => ret.calls = <<>>

\* C8: in the Initialized state with the global flag clear, an erase at an
\* address of the device inside the Descriptor region returns EFI_UNSUPPORTED,
\* and one inside Boot Block, Main Firmware or NVRAM is not refused by the
\* manager and returns EFI_SUCCESS when the FVB call succeeds.
C8_ErasePolicy ==
    ( /\ mFlashManagerInitialized
      /\ ~mFlashInfo.WriteProtected
      /\ ret.op = "flash_erase_sector"
      /\ ret.Address < mFlashInfo.TotalSize )
    => /\ (\E i \in RegionOfType("FLASH_REGION_DESCRIPTOR") : RegionHas(i, ret.Address))
          => ret.Status = "EFI_UNSUPPORTED"
       /\ (\E i \in RegionIndexes :
              /\ mFlashRegions[i].Type # "FLASH_REGION_DESCRIPTOR"
              /\ RegionHas(i, ret.Address))
          => /\ ret.by # "validation"
             /\ BackendSucceeded(ret) => ret.Status = "EFI_SUCCESS"

\* C9: in the Initialized state a read with a valid buffer and Address + Size
\* within the total size is never refused by the manager and returns
\* EFI_SUCCESS when the FVB call succeeds, whatever the regions it touches and
\* whatever the device-global flag.
C9_ReadWithinBounds ==
    ( /\ mFlashManagerInitialized
      /\ ret.op = "flash_read"
      /\ ValidTransfer(ret) )
    => /\ ret.by # "validation"
       /\ BackendSucceeded(ret) => ret.Status = "EFI_SUCCESS"

\* a successful read of the last byte of the device, inside the write-protected
\* Descriptor region, with the global flag set
C9_Witness ==
    /\ mFlashManagerInitialized
    /\ mFlashInfo.WriteProtected
    /\ ret.op = "flash_read"
    /\ ret.Address + ret.Size = mFlashInfo.TotalSize
    /\ \E i \in RegionOfType("FLASH_REGION_DESCRIPTOR") :
           RegionInside(i, ret.Address, ret.Size)
    /\ ret.calls # <<>>
    /\ ret.Status = "EFI_SUCCESS"

\* C10: when flash_read, flash_write or flash_erase_sector returns the error of
\* one of the manager's own checks, no FVB call was issued during the call, the
\* device's contents and the manager's state are as before, and the status is
\* one of the validation kinds.
C10_FailFast ==
    [][ ( /\ ret'.op \in {"flash_read", "flash_write", "flash_erase_sector"}
          /\ ret'.by = "validation" )
        => /\ ret'.calls = <<>>
           /\ flash' = flash
           /\ UNCHANGED <<managerVars, fvb>>
           /\ ret'.Status \in {"EFI_INVALID_PARAMETER", "EFI_NOT_READY",
                               "EFI_WRITE_PROTECTED", "EFI_NOT_FOUND",
                               "EFI_UNSUPPORTED"} ]_vars

\* an erase refused by region policy while the protocol is held and the device
\* holds written data
C10_Witness ==
    /\ ret.op = "flash_erase_sector"
    /\ ret.by = "validation"
    /\ ret.Status = "EFI_UNSUPPORTED"
    /\ mFvbProtocol # "NULL"
    /\ \E c \in DOMAIN flash : flash[c] = 170

-----------------------------------------------------------------------------
\* the region holds the whole range and is not write-protected
WritableRange(Address, Size) ==
    \E i \in RegionIndexes :
        ~mFlashRegions[i].WriteProtected /\ RegionInside(i, Address, Size)

\* C11: in the Initialized state, when a flash_write of a pattern at Address
\* inside a region that is not write-protected has returned EFI_SUCCESS, a
\* flash_read of the same Address and Size made next (the device answering)
\* returns EFI_SUCCESS and every byte it hands back at an address of the
\* written range is the byte written there.
C11_RoundTrip ==
    [][ ( /\ mFlashManagerInitialized
          /\ ret.op = "flash_write"
          /\ ret.Status = "EFI_SUCCESS"
          /\ WritableRange(ret.Address, ret.Size)
          /\ ret'.op = "flash_read"
          /\ ret'.Buffer # "NULL"
          /\ ret'.Address = ret.Address
          /\ ret'.Size = ret.Size
          /\ BackendSucceeded(ret') )
        => /\ ret'.Status = "EFI_SUCCESS"
           /\ \A w \in ret.Data, d \in ret'.Data : d[1] = w[1] => d[2] = w[2] ]_vars

\* the base address of the sector of the descriptor's geometry that holds Address
SectorBase(Address) == Address - (Address % mFlashInfo.SectorSize)

\* C12: when a flash_erase_sector at an address inside Main Firmware has
\* returned EFI_SUCCESS, a flash_read of one full sector at that sector's base
\* address made next (the device answering) returns EFI_SUCCESS and only 0xFF
\* bytes.
C12_ErasedReadsFF ==
    [][ ( /\ mFlashManagerInitialized
          /\ ret.op = "flash_erase_sector"
          /\ ret.Status = "EFI_SUCCESS"
          /\ \E i \in RegionOfType("FLASH_REGION_MAIN_FIRMWARE") : RegionHas(i, ret.Address)
          /\ ret'.op = "flash_read"
          /\ ret'.Buffer # "NULL"
          /\ ret'.Address = SectorBase(ret.Address)
          /\ ret'.Size = mFlashInfo.SectorSize
          /\ BackendSucceeded(ret') )
        => /\ ret'.Status = "EFI_SUCCESS"
           /\ \A d \in ret'.Data : d[2] = 255 ]_vars

-----------------------------------------------------------------------------
\* the attributes of the four regions, in table order
LayoutAttributes ==
    /\ mRegionCount = 4
    /\ mFlashRegions[0].Type = "FLASH_REGION_BOOT_BLOCK"
    /\ mFlashRegions[0].WriteProtected /\ mFlashRegions[0].EraseRequired
    /\ mFlashRegions[1].Type = "FLASH_REGION_MAIN_FIRMWARE"
    /\ ~mFlashRegions[1].WriteProtected /\ mFlashRegions[1].EraseRequired
    /\ mFlashRegions[2].Type = "FLASH_REGION_NVRAM"
    /\ ~mFlashRegions[2].WriteProtected /\ mFlashRegions[2].EraseRequired
    /\ mFlashRegions[3].Type = "FLASH_REGION_DESCRIPTOR"
    /\ mFlashRegions[3].WriteProtected /\ ~mFlashRegions[3].EraseRequired

\* region i is the half-open range [lo, hi)
RegionIs(i, lo, hi) ==
    /\ mFlashRegions[i].StartAddress = lo
    /\ mFlashRegions[i].StartAddress + mFlashRegions[i].Size = hi

\* total sizes for which no term of the layout leaves the 32-bit range
LayoutFits == 256 * 1024 <= mFlashInfo.TotalSize /\ mFlashInfo.TotalSize <= UINT32_MOD

\* C13 as stated: in the Initialized state the table holds four regions in the
\* order Boot Block [0, 64 KiB), Main Firmware [64 KiB, total - 256 KiB),
\* NVRAM [total - 192 KiB, total - 64 KiB), Descriptor [total - 64 KiB, total),
\* with their flags.
C13_LayoutAsStated ==
    mFlashManagerInitialized =>
        /\ LayoutAttributes
        /\ RegionIs(0, 0, 64 * 1024)
        /\ RegionIs(1, 64 * 1024, mFlashInfo.TotalSize - 256 * 1024)
        /\ RegionIs(2, mFlashInfo.TotalSize - 192 * 1024, mFlashInfo.TotalSize - 64 * 1024)
        /\ RegionIs(3, mFlashInfo.TotalSize - 64 * 1024, mFlashInfo.TotalSize)

\* C13: in the Initialized state the table holds exactly four regions, in the
\* order Boot Block, Main Firmware, NVRAM, Descriptor, with their flags; Boot
\* Block starts at 0 with size 64 KiB, Main Firmware starts at 64 KiB with size
\* total - 256 KiB, NVRAM starts at total - 192 KiB with size 128 KiB and the
\* Descriptor starts at total - 64 KiB with size 64 KiB, each value as its
\* 32-bit field holds it; for a total from 256 KiB up to 2^32 these are the
\* ranges [0, 64 KiB), [64 KiB, total - 192 KiB), [total - 192 KiB,
\* total - 64 KiB) and [total - 64 KiB, total).
C13_Layout ==
    mFlashManagerInitialized =>
        /\ LayoutAttributes
        /\ \A i \in 4..(MAX_FLASH_REGIONS - 1) : mFlashRegions[i] = ZeroRegion
        /\ mFlashRegions[0].StartAddress = 0
        /\ mFlashRegions[0].Size = 64 * 1024
        /\ mFlashRegions[1].StartAddress = 64 * 1024
        /\ mFlashRegions[1].Size = (mFlashInfo.TotalSize - 256 * 1024) % UINT32_MOD
        /\ mFlashRegions[2].StartAddress = (mFlashInfo.TotalSize - 192 * 1024) % UINT32_MOD
        /\ mFlashRegions[2].Size = 128 * 1024
        /\ mFlashRegions[3].StartAddress = (mFlashInfo.TotalSize - 64 * 1024) % UINT32_MOD
        /\ mFlashRegions[3].Size = 64 * 1024
        /\ LayoutFits =>
              /\ RegionIs(0, 0, 64 * 1024)
              /\ RegionIs(1, 64 * 1024, mFlashInfo.TotalSize - 192 * 1024)
              /\ RegionIs(2, mFlashInfo.TotalSize - 192 * 1024,
                             mFlashInfo.TotalSize - 64 * 1024)
              /\ RegionIs(3, mFlashInfo.TotalSize - 64 * 1024, mFlashInfo.TotalSize)

\* the table built for a 1 MiB device whose geometry the FVB reported
C13_Witness ==
    /\ mFlashManagerInitialized
    /\ ret.op = "flash_manager_init"
    /\ ret.Status = "EFI_SUCCESS"
    /\ mFvbProtocol # "NULL"
    /\ mFlashInfo.TotalSize = 1024 * 1024
    /\ RegionIs(1, 64 * 1024, 1024 * 1024 - 192 * 1024)

-----------------------------------------------------------------------------
\* C14: a flash_manager_init called while the manager is Initialized, and a
\* flash_manager_cleanup called right after a successful cleanup, return a
\* status that is not an error.
C14_RepeatedLifecycleCalls ==
    [][ ( \/ /\ ret'.op = "flash_manager_init"
             /\ mFlashManagerInitialized
          \/ /\ ret'.op = "flash_manager_cleanup"
             /\ ret.op = "flash_manager_cleanup"
             /\ ret.Status = "EFI_SUCCESS" )
        => ~EFI_ERROR(ret'.Status) ]_vars

-----------------------------------------------------------------------------
\* the manager's variables as construction leaves them
FreshManager ==
    /\ ~mFlashManagerInitialized
    /\ mFvbProtocol = "NULL"
    /\ mFvbHandle = "NULL"
    /\ mFlashInfo = ZeroFlashInfo
    /\ mFlashRegions = ZeroRegions
    /\ mRegionCount = 0

\* what the first init after construction builds from the backend's answers:
\* <<protocol, handle, descriptor, region table, region count>>
BuiltFrom(found, attr, geo) ==
    LET proto == IF found = "opened" THEN "FVB" ELSE "NULL"
        info  == DetectFlashDevice(proto, attr, geo)
    IN  << proto, IF found = "opened" THEN "HANDLE0" ELSE "NULL", info,
           InitializeFlashRegions(info), 4 >>

\* C15: a flash_manager_init called in the Uninitialized state, after a cleanup
\* as well as after construction, starts from the manager state construction
\* leaves, returns EFI_SUCCESS, and the protocol, handle, descriptor and region
\* table it leaves are those the first init builds from the same backend
\* answers.
C15_Recovery ==
    [][ ( /\ ret'.op = "flash_manager_init"
          /\ ~mFlashManagerInitialized )
        => /\ FreshManager
           /\ ret'.Status = "EFI_SUCCESS"
           /\ mFlashManagerInitialized'
           /\ \E found \in ProtocolOutcomes, attr \in AttrResponses, geo \in GeoResponses :
                  << mFvbProtocol', mFvbHandle', mFlashInfo', mFlashRegions',
                     mRegionCount' >> = BuiltFrom(found, attr, geo) ]_vars

\* an init that found no protocol, made after the cleanup of a generation that
\* held the protocol and wrote the device through it
C15_Witness ==
    /\ ret.op = "flash_manager_init"
    /\ ret.Status = "EFI_SUCCESS"
    /\ mFlashManagerInitialized
    /\ mFvbProtocol = "NULL"
    /\ mFlashInfo.TotalSize = 16 * 1024 * 1024
    /\ \E c \in DOMAIN flash : flash[c] = 170

-----------------------------------------------------------------------------
\* the statuses of the manager's own checks
PolicyStatuses ==
    {"EFI_WRITE_PROTECTED", "EFI_INVALID_PARAMETER", "EFI_NOT_FOUND",
     "EFI_UNSUPPORTED", "EFI_NOT_READY"}

\* C16: the status flash_read, flash_write or flash_erase_sector returns for a
\* failure of the FVB call is never one of the statuses of the manager's own
\* checks (EFI_WRITE_PROTECTED, EFI_INVALID_PARAMETER, EFI_NOT_FOUND,
\* EFI_UNSUPPORTED, EFI_NOT_READY).
C16_BackendFailureDistinct ==
    ( /\ ret.op \in {"flash_read", "flash_write", "flash_erase_sector"}
      /\ ret.by = "backend" )
    => ret.Status \notin PolicyStatuses

-----------------------------------------------------------------------------
\* C17: a flash_read or flash_write that returns EFI_SUCCESS has moved exactly
\* the bytes of the device at the linear addresses [Address, Address + Size):
\* after a write each of them holds the byte of the caller's buffer and every
\* other byte of the device is as before; a read hands back each of them as the
\* device holds it and changes nothing.  This includes ranges that cross a
\* block boundary of the FVB device.
C17_LinearTransfer ==
    [][ ( /\ mFlashManagerInitialized
          /\ ret'.op \in TransferOps
          /\ ret'.Status = "EFI_SUCCESS" )
        => IF ret'.op = "flash_write"
           THEN /\ \A d \in ret'.Data : flash'[d[1]] = d[2]
                /\ \A c \in DOMAIN flash :
                       c \notin CellsIn(ret'.Address, ret'.Size) => flash'[c] = flash[c]
           ELSE /\ ret'.Data = { <<c, flash[c]>> : c \in CellsIn(ret'.Address, ret'.Size) }
                /\ flash' = flash ]_vars

-----------------------------------------------------------------------------
\* C18: for a descriptor whose total size is below 256 KiB + 64 KiB the table
\* of an Initialized manager holds no wrapped value: the size of Main Firmware
\* is total - 256 KiB where that is not negative and zero otherwise, and no
\* region has a start address or a size above the total size.  (An init that
\* rejects the descriptor leaves the manager Uninitialized.)
C18_MainFirmwareGuarded ==
    ( /\ mFlashManagerInitialized
      /\ mFlashInfo.TotalSize < 256 * 1024 + 64 * 1024 )
    => /\ \A i \in RegionOfType("FLASH_REGION_MAIN_FIRMWARE") :
              mFlashRegions[i].Size
                 = IF mFlashInfo.TotalSize >= 256 * 1024
                   THEN mFlashInfo.TotalSize - 256 * 1024 ELSE 0
       /\ \A i \in RegionIndexes :
              /\ mFlashRegions[i].StartAddress <= mFlashInfo.TotalSize
              /\ mFlashRegions[i].Size <= mFlashInfo.TotalSize

-----------------------------------------------------------------------------
\* C19: the checks of flash_write and flash_erase_sector decide in the order
\* device boundary, device-global flag, region policy, FVB call.  In the
\* Initialized state a write (valid buffer) that runs past the total size and
\* an erase at or past the total size return EFI_INVALID_PARAMETER whatever the
\* global flag and the regions; with the global flag set, a write inside the
\* device and an erase inside the device return EFI_WRITE_PROTECTED whatever
\* the region (an erase in the Descriptor is not answered EFI_UNSUPPORTED);
\* none of them issues an FVB call.
C19_CheckOrder ==
    mFlashManagerInitialized =>
      /\ ( /\ ret.op = "flash_write"
           /\ ret.Buffer # "NULL"
           /\ ret.Size > 0 )
         => /\ ret.Address + ret.Size > mFlashInfo.TotalSize
               => ret.Status = "EFI_INVALID_PARAMETER" /\ ret.calls = <<>>
            /\ ( /\ ret.Address + ret.Size <= mFlashInfo.TotalSize
                 /\ mFlashInfo.WriteProtected )
               => ret.Status = "EFI_WRITE_PROTECTED" /\ ret.calls = <<>>
      /\ ret.op = "flash_erase_sector"
         => /\ ret.Address >= mFlashInfo.TotalSize
               => ret.Status = "EFI_INVALID_PARAMETER" /\ ret.calls = <<>>
            /\ ( /\ ret.Address < mFlashInfo.TotalSize
                 /\ mFlashInfo.WriteProtected )
               => ret.Status = "EFI_WRITE_PROTECTED" /\ ret.calls = <<>>

\* an erase at an address of the Descriptor, inside the device, answered
\* EFI_WRITE_PROTECTED on a device whose global flag is set
C19_Witness ==
    /\ mFlashManagerInitialized
    /\ mFlashInfo.WriteProtected
    /\ ret.op = "flash_erase_sector"
    /\ ret.Address < mFlashInfo.TotalSize
    /\ \E i \in RegionOfType("FLASH_REGION_DESCRIPTOR") :
           RegionHas(i, ret.Address) /\ ~mFlashRegions[i].EraseRequired
    /\ ret.Status = "EFI_WRITE_PROTECTED"

-----------------------------------------------------------------------------
\* C20: in the Initialized state every region of the table ends inside the
\* device: StartAddress + Size <= TotalSize of the descriptor, for every
\* geometry the FVB reports.
C20_RegionsInsideDevice ==
    mFlashManagerInitialized =>
        \A i \in RegionIndexes :
            mFlashRegions[i].StartAddress + mFlashRegions[i].Size <= mFlashInfo.TotalSize

-----------------------------------------------------------------------------
\* some byte address belongs to region i and to region j
RegionsShareByte(i, j) ==
    LET lo == IF mFlashRegions[i].StartAddress >= mFlashRegions[j].StartAddress
              THEN mFlashRegions[i].StartAddress ELSE mFlashRegions[j].StartAddress
        ei == mFlashRegions[i].StartAddress + mFlashRegions[i].Size
        ej == mFlashRegions[j].StartAddress + mFlashRegions[j].Size
    IN  lo < ei /\ lo < ej

\* C21: in the Initialized state no byte address belongs to two regions of the
\* table, for the default geometry and for every geometry the FVB reports.
C21_RegionsDisjoint ==
    mFlashManagerInitialized =>
        \A i \in RegionIndexes, j \in RegionIndexes : i # j => ~RegionsShareByte(i, j)

-----------------------------------------------------------------------------
IsPowerOfTwo(n) == \E k \in 0..UINT32_BITS : n = 2 ^ k

\* C22: in the Initialized state the descriptor has TotalSize > 0, a SectorSize
\* that is positive and a power of two, BlockCount > 0, and BlockCount sectors
\* of SectorSize bytes make up TotalSize exactly, whatever the FVB reports.
C22_DescriptorUsable ==
    mFlashManagerInitialized =>
        /\ mFlashInfo.TotalSize > 0
        /\ mFlashInfo.SectorSize > 0
        /\ IsPowerOfTwo(mFlashInfo.SectorSize)
        /\ mFlashInfo.BlockCount > 0
        /\ mFlashInfo.TotalSize % mFlashInfo.SectorSize = 0
        /\ mFlashInfo.TotalSize \div mFlashInfo.SectorSize = mFlashInfo.BlockCount

-----------------------------------------------------------------------------
\* the descriptor's geometry is the default one
DefaultGeometry(info) ==
    /\ info.TotalSize = 16 * 1024 * 1024
    /\ info.SectorSize = 4096
    /\ info.BlockCount = 4096

\* C23: flash_manager_init called in the Uninitialized state returns
\* EFI_SUCCESS and leaves the manager Initialized whether no FVB protocol is
\* found or opened or the protocol fails GetAttributes or GetBlockSize; without
\* a protocol the descriptor holds every default, after a failed GetAttributes
\* it is not write-protected, after a failed GetBlockSize it holds the default
\* geometry (16 MiB, 4096-byte sectors, 4096 blocks).
C23_DetectionNonFatal ==
    [][ ( /\ ret'.op = "flash_manager_init"
          /\ ~mFlashManagerInitialized )
        => /\ ret'.Status = "EFI_SUCCESS"
           /\ mFlashManagerInitialized'
           /\ (mFvbProtocol' = "NULL") = (ret'.calls = <<>>)
           /\ ret'.calls = <<>>
              => DefaultGeometry(mFlashInfo') /\ ~mFlashInfo'.WriteProtected
           /\ ret'.calls # <<>>
              => /\ EFI_ERROR(ret'.calls[1].Status) => ~mFlashInfo'.WriteProtected
                 /\ EFI_ERROR(ret'.calls[2].Status) => DefaultGeometry(mFlashInfo') ]_vars

\* an init on a 256 KiB device whose GetBlockSize failed and whose
\* GetAttributes answered: the flag is the device's, the geometry the default
C23_Witness ==
    /\ ret.op = "flash_manager_init"
    /\ ret.Status = "EFI_SUCCESS"
    /\ mFvbProtocol # "NULL"
    /\ Len(ret.calls) = 2
    /\ ret.calls[1].Status = "EFI_SUCCESS"
    /\ ret.calls[2].Status = "EFI_DEVICE_ERROR"
    /\ mFlashInfo.WriteProtected
    /\ DefaultGeometry(mFlashInfo)
    /\ FvbTotal = 256 * 1024

-----------------------------------------------------------------------------
\* C24: while the manager is Initialized, every call other than
\* flash_manager_cleanup (flash_read, flash_write, flash_erase_sector,
\* flash_get_device_info, flash_manager_status and a rejected
\* flash_manager_init), whether it succeeds or fails and whatever the FVB
\* answers, leaves the descriptor, the region table and the region count
\* unchanged.
C24_DescriptorAndTableFrozen ==
    [][ ( /\ mFlashManagerInitialized
          /\ ret'.op # "flash_manager_cleanup" )
        => /\ mFlashManagerInitialized'
           /\ UNCHANGED <<mFlashInfo, mFlashRegions, mRegionCount>> ]_vars

\* a write the FVB failed, after an earlier write reached the device; the
\* table is still the one built from the descriptor
C24_Witness ==
    /\ mFlashManagerInitialized
    /\ ret.op = "flash_write"
    /\ ret.by = "backend"
    /\ \E c \in DOMAIN flash : flash[c] = 170
    /\ mRegionCount = 4
    /\ mFlashRegions = InitializeFlashRegions(mFlashInfo)

-----------------------------------------------------------------------------
\* C25: for every flash_write that passed the parameter and boundary checks
\* and every region of the table, the inclusive 32-bit overlap test of
\* CheckRegionWriteProtection answers as the half-open test
\* Address < start + size /\ Address + Size > start does.
C25_OverlapTestsAgree ==
    ( /\ mFlashManagerInitialized
      /\ ret.op = "flash_write"
      /\ ValidTransfer(ret) )
    => \A i \in RegionIndexes :
           WriteOverlaps(ret.Address, ToUINT32(ret.Address + ret.Size - 1), i)
             = RegionIntersects(i, ret.Address, ret.Size)

-----------------------------------------------------------------------------
\* the regions that contain Address, and the first of them in table order
RegionsHaving(Address) == { i \in RegionIndexes : RegionHas(i, Address) }

FirstRegionHaving(Address) ==
    CHOOSE i \in RegionsHaving(Address) : \A j \in RegionsHaving(Address) : i <= j

\* C26: in the Initialized state with the global flag clear, an erase at an
\* address of the device is accepted exactly when the first region in table
\* order that contains the address is erasable, whatever later regions contain
\* it too; an accepted erase issues exactly one FVB EraseBlocks call, for one
\* block, the one with index Address / SectorSize.
C26_OneSectorFirstRegion ==
    ( /\ mFlashManagerInitialized
      /\ ~mFlashInfo.WriteProtected
      /\ ret.op = "flash_erase_sector"
      /\ ret.Address < mFlashInfo.TotalSize )
    => /\ (ret.by # "validation")
            = ( /\ RegionsHaving(ret.Address) # {}
                /\ mFlashRegions[FirstRegionHaving(ret.Address)].EraseRequired )
       /\ ret.by # "validation"
          => /\ Len(ret.calls) = 1
             /\ ret.calls[1].fn = "EraseBlocks"
             /\ ret.calls[1].Lba = ret.Address \div mFlashInfo.SectorSize
             /\ ret.calls[1].NumBytes = 1

-----------------------------------------------------------------------------
\* the table and the descriptor of an Initialized manager
FullyBuilt ==
    /\ mFlashManagerInitialized
    /\ LayoutAttributes
    /\ \A i \in 4..(MAX_FLASH_REGIONS - 1) : mFlashRegions[i] = ZeroRegion
    /\ mFlashInfo # ZeroFlashInfo
    /\ mFlashInfo.DeviceName # ""
    /\ (mFvbProtocol = "NULL") = (mFvbHandle = "NULL")
    /\ fvb.Opened = (mFvbProtocol # "NULL")

\* nothing is left of a generation
FullyCleared ==
    /\ FreshManager
    /\ ~fvb.Opened

\* C27: after every call of the API the manager is either Initialized with
\* exactly the four regions and a non-zero descriptor, or Uninitialized with
\* region count 0, a zeroed table and descriptor and neither protocol nor
\* handle held.
C27_BuiltOrCleared == FullyBuilt \/ FullyCleared

\* an Initialized manager holding the protocol after the FVB failed an erase
C27_Witness ==
    /\ FullyBuilt
    /\ mFvbProtocol # "NULL"
    /\ ret.op = "flash_erase_sector"
    /\ ret.by = "backend"
    /\ ret.Status = "EFI_DEVICE_ERROR"

-----------------------------------------------------------------------------
\* C28: in the Initialized state with a total size of at least 256 KiB every
\* address a caller can pass that lies below the total size belongs to some
\* region of the table, and flash_erase_sector does not return EFI_NOT_FOUND
\* for an address below the total size.
C28_NoGaps ==
    ( /\ mFlashManagerInitialized
      /\ mFlashInfo.TotalSize >= 256 * 1024 )
    => /\ \A a \in Addresses :
              a < mFlashInfo.TotalSize => RegionsHaving(a) # {}
       /\ ( /\ ret.op = "flash_erase_sector"
            /\ ret.Address < mFlashInfo.TotalSize )
          => ret.Status # "EFI_NOT_FOUND"

-----------------------------------------------------------------------------
\* C29: an accepted erase stays inside the region that authorised it: the
\* sector [SectorBase, SectorBase + SectorSize) of the address lies within the
\* first region that contains the address, and an erase accepted in Main
\* Firmware or NVRAM leaves every byte of Boot Block and Descriptor as it was.
C29_EraseStaysInRegion ==
    [][ ( /\ mFlashManagerInitialized
          /\ ret'.op = "flash_erase_sector"
          /\ ret'.by # "validation"
          /\ RegionsHaving(ret'.Address) # {} )
        => LET i == FirstRegionHaving(ret'.Address)
           IN  /\ RegionInside(i, SectorBase(ret'.Address), mFlashInfo.SectorSize)
               /\ mFlashRegions[i].Type \in {"FLASH_REGION_MAIN_FIRMWARE",
                                             "FLASH_REGION_NVRAM"}
                  => \A c \in DOMAIN flash :
                         (\E j \in RegionOfType("FLASH_REGION_BOOT_BLOCK")
                                   \cup RegionOfType("FLASH_REGION_DESCRIPTOR") :
                              RegionHas(j, c))
                         => flash'[c] = flash[c] ]_vars

-----------------------------------------------------------------------------
\* C30: after a usb_device_detect, while the driver is initialized, every
\* index below mDeviceCount is an index of the table and names an entry stored
\* by that detection, and the detection stored nothing past the end of the
\* table; usb_device_communicate never reaches a device through an entry that
\* the last detection did not store.
C30_DeviceTableConsistent ==
    /\ mUsbDriverInitialized
       => /\ \A i \in 0..(mDeviceCount - 1) :
                 i < MAX_USB_DEVICES /\ mUsbDevices[i].Pass = "this"
          /\ usbOverrun = {}
    /\ ( /\ usbRet.op = "usb_device_communicate"
         /\ usbRet.Status \in UsbTransferResponses )
       => usbRet.Pass = "this"

====
